---- MODULE Spec2Model ----
(***************************************************************************)
(* Model of the MQTT 3.1.1 CONNECT packet decoder and builder of           *)
(* quartiq/mqttparse (src/connect.rs, src/status.rs, src/error.rs).        *)
(*                                                                         *)
(* A byte is a number in 0..255, a string or byte string is a sequence of  *)
(* bytes, Option<T> is a record [some, val], a Duration is its number of   *)
(* whole seconds.  Rust indexes from 0, TLA+ from 1: bytes[read] in the    *)
(* source is bytes[read + 1] here.                                         *)
(***************************************************************************)
EXTENDS Naturals, Sequences, FiniteSets

(***************************************************************************)
(* Bounds of the model.                                                    *)
(***************************************************************************)
\* longest buffer built from arbitrary bytes
MaxRawLen == 5

(***************************************************************************)
(* Program constants.                                                      *)
(***************************************************************************)
PROTOCOL_REVISION_3_1_1 == 4

(***************************************************************************)
(* Bit operations on u8.                                                   *)
(***************************************************************************)
RECURSIVE BitAnd(_, _)
BitAnd(a, b) ==
    IF a = 0 \/ b = 0 THEN 0
    ELSE (a % 2) * (b % 2) + 2 * BitAnd(a \div 2, b \div 2)

\* bit i (0 = least significant) of byte b, as the protocol defines it
Bit(b, i) == (b \div (2 ^ i)) % 2 = 1

(***************************************************************************)
(* Option<T>.                                                              *)
(***************************************************************************)
None == [some |-> FALSE, val |-> <<>>]

Some(v) == [some |-> TRUE, val |-> v]

(***************************************************************************)
(* Status<T> under Result<_, Error>: kind is Complete, Partial or Err.     *)
(***************************************************************************)
StComplete(v) == [kind |-> "Complete", err |-> "", val |-> v]

StPartial == [kind |-> "Partial", err |-> "", val |-> <<>>]

StErr(e) == [kind |-> "Err", err |-> e, val |-> <<>>]

(***************************************************************************)
(* core::str::from_utf8: well-formed UTF-8 (RFC 3629, no overlong forms,   *)
(* no surrogates, nothing above U+10FFFF).                                 *)
(***************************************************************************)
IsCont(b) == b >= 128 /\ b <= 191

RECURSIVE Utf8Valid(_)
Utf8Valid(s) ==
    IF s = <<>> THEN TRUE
    ELSE LET b == s[1]
             n == Len(s)
         IN  IF b < 128 THEN Utf8Valid(Tail(s))
             ELSE IF b >= 194 /\ b <= 223
             THEN n >= 2 /\ IsCont(s[2]) /\ Utf8Valid(SubSeq(s, 3, n))
             ELSE IF b >= 224 /\ b <= 239
             THEN /\ n >= 3
                  /\ IsCont(s[2])
                  /\ IsCont(s[3])
                  /\ (b = 224 => s[2] >= 160)
                  /\ (b = 237 => s[2] <= 159)
                  /\ Utf8Valid(SubSeq(s, 4, n))
             ELSE IF b >= 240 /\ b <= 244
             THEN /\ n >= 4
                  /\ IsCont(s[2])
                  /\ IsCont(s[3])
                  /\ IsCont(s[4])
                  /\ (b = 240 => s[2] >= 144)
                  /\ (b = 244 => s[2] <= 143)
                  /\ Utf8Valid(SubSeq(s, 5, n))
             ELSE FALSE

(***************************************************************************)
(* Primitive decoders (crate root).                                        *)
(***************************************************************************)
decode_len_prefixed_bytes(buf) ==
    IF Len(buf) < 2 THEN StPartial
    ELSE LET n == buf[1] * 256 + buf[2]
         IN  IF Len(buf) < 2 + n THEN StPartial
             ELSE StComplete(SubSeq(buf, 3, 2 + n))

decode_string(buf) ==
    LET r == decode_len_prefixed_bytes(buf)
    IN  IF r.kind = "Complete" /\ ~Utf8Valid(r.val) THEN StErr("Utf8") ELSE r

(***************************************************************************)
(* QoS::from_u8 (crate root): the value of the QoS field to the            *)
(* enumeration; anything but 0, 1, 2 is Error::InvalidQoS.                 *)
(***************************************************************************)
QoS_from_u8(byte) ==
    IF byte = 0 THEN StComplete("AtMostOnce")
    ELSE IF byte = 1 THEN StComplete("AtLeastOnce")
    ELSE IF byte = 2 THEN StComplete("ExactlyOnce")
    ELSE StErr("InvalidQoS")

(***************************************************************************)
(* The read_* macros of status.rs.  Each either yields a value and the     *)
(* advanced cursor (kind "Ok"), or makes the enclosing function return     *)
(* (kind "Partial" or "Err"), or panics (kind "Panic").                    *)
(***************************************************************************)
RdOk(v, r) == [kind |-> "Ok", err |-> "", val |-> v, read |-> r]

RdReturn(st, r) == [kind |-> st.kind, err |-> st.err, val |-> <<>>, read |-> r]

RdPanic(r) == [kind |-> "Panic", err |-> "", val |-> <<>>, read |-> r]

\* &bytes[read..]
SliceFrom(bytes, read) == SubSeq(bytes, read + 1, Len(bytes))

\* complete!(e): the value of a Complete, otherwise return from the function
complete(st, newread) ==
    IF st.kind = "Complete" THEN RdOk(st.val, newread) ELSE RdReturn(st, newread)

read_byte(bytes, read) ==
    IF Len(bytes) - read > 0
    THEN RdOk(bytes[read + 1], read + 1)
    ELSE RdReturn(StPartial, read)

read_bytes(bytes, read) ==
    IF Len(bytes) - read > 0
    THEN LET st == decode_len_prefixed_bytes(SliceFrom(bytes, read))
         IN  complete(st, read + 2 + Len(st.val))
    ELSE RdReturn(StPartial, read)

read_bytes_final(bytes, read) ==
    IF Len(bytes) - read > 0
    THEN complete(decode_len_prefixed_bytes(SliceFrom(bytes, read)), read)
    ELSE RdReturn(StPartial, read)

read_str(bytes, read) ==
    IF Len(bytes) - read > 0
    THEN LET st == decode_string(SliceFrom(bytes, read))
         IN  complete(st, read + 2 + Len(st.val))
    ELSE RdReturn(StPartial, read)

\* BigEndian::read_u16 panics on a slice of fewer than 2 bytes
read_u16(bytes, read) ==
    IF Len(bytes) - read > 0
    THEN IF Len(SliceFrom(bytes, read)) < 2
         THEN RdPanic(read)
         ELSE RdOk(bytes[read + 1] * 256 + bytes[read + 2], read + 2)
    ELSE RdReturn(StPartial, read)

(***************************************************************************)
(* Connect (connect.rs).                                                   *)
(***************************************************************************)
Connect(name, revision, flags, clean_session, will_flag, will_topic, will_msg, will_qos, will_retain, username_present, username, password_present, password, keep_alive, client_id) ==
    [name |-> name, revision |-> revision, flags |-> flags,
     clean_session |-> clean_session, will_flag |-> will_flag,
     will_topic |-> will_topic, will_msg |-> will_msg, will_qos |-> will_qos,
     will_retain |-> will_retain, username_present |-> username_present,
     username |-> username, password_present |-> password_present,
     password |-> password, keep_alive |-> keep_alive, client_id |-> client_id]

\* Connect::new
new(name, client_id, keep_alive) ==
    Connect(name, PROTOCOL_REVISION_3_1_1, 0, FALSE, FALSE, None, None,
            "AtMostOnce", FALSE, FALSE, None, FALSE, None, keep_alive, client_id)

with_revision(self, revision) == [self EXCEPT !.revision = revision]

with_flags(self, flags) == [self EXCEPT !.flags = flags]

with_clean_session(self, clean_session) ==
    [self EXCEPT !.clean_session = clean_session]

with_will_flag(self, will_flag) == [self EXCEPT !.will_flag = will_flag]

with_will_topic(self, will_topic) == [self EXCEPT !.will_topic = Some(will_topic)]

with_will_msg(self, will_msg) == [self EXCEPT !.will_msg = Some(will_msg)]

with_will_qos(self, will_qos) == [self EXCEPT !.will_qos = will_qos]

with_will_retain(self, will_retain) == [self EXCEPT !.will_retain = will_retain]

with_username_noflag(self, username) == [self EXCEPT !.username = Some(username)]

with_username(self, username) ==
    [self EXCEPT !.username_present = TRUE, !.username = Some(username)]

with_password(self, password) ==
    [self EXCEPT !.password_present = TRUE, !.password = Some(password)]

(***************************************************************************)
(* Connect::from_bytes.  The outcome is Ok(Complete(conn)), Ok(Partial),   *)
(* Err(err) or a panic; conn is meaningful only when kind is Complete.     *)
(***************************************************************************)
NoConnect == new(<<>>, <<>>, 0)

FbComplete(c) == [kind |-> "Complete", err |-> "", conn |-> c]

FbErr(e) == [kind |-> "Err", err |-> e, conn |-> NoConnect]

\* the function returns, or panics, out of a read_* macro
FbReturn(rd) == [kind |-> rd.kind, err |-> rd.err, conn |-> NoConnect]

\* flags & 1 != 0
ReservedBitWrongMask(flags) == BitAnd(flags, 2) # 0

ReservedBitUnchecked(flags) == FALSE

ReservedBitSet(flags) == BitAnd(flags, 1) # 0

\* flags & mask == 1: Rust parses it as (flags & mask) == 1
FlagBit(flags, mask) == BitAnd(flags, mask) = 1

\* the fields after the flags byte, once the flags passed validation
ReadPayload(bytes, name, revision, flags, clean_session, will_flag, will_qos, will_retain, password_present, username_present, read0) ==
    LET keep_alive == read_u16(bytes, read0) IN
    IF keep_alive.kind # "Ok" THEN FbReturn(keep_alive) ELSE
    LET client_id == read_str(bytes, keep_alive.read) IN
    IF client_id.kind # "Ok" THEN FbReturn(client_id) ELSE
    LET topic == IF will_flag THEN read_str(bytes, client_id.read)
                 ELSE RdOk(<<>>, client_id.read) IN
    IF topic.kind # "Ok" THEN FbReturn(topic) ELSE
    LET msg == IF will_flag THEN read_bytes(bytes, topic.read)
               ELSE RdOk(<<>>, topic.read) IN
    IF msg.kind # "Ok" THEN FbReturn(msg) ELSE
    LET user == IF username_present THEN read_str(bytes, msg.read)
                ELSE RdOk(<<>>, msg.read) IN
    IF user.kind # "Ok" THEN FbReturn(user) ELSE
    LET pass == IF password_present THEN read_bytes_final(bytes, user.read)
                ELSE RdOk(<<>>, user.read) IN
    IF pass.kind # "Ok" THEN FbReturn(pass) ELSE
    FbComplete(Connect(name, revision, flags, clean_session, will_flag,
                       IF will_flag THEN Some(topic.val) ELSE None,
                       IF will_flag THEN Some(msg.val) ELSE None,
                       will_qos, will_retain, username_present,
                       IF username_present THEN Some(user.val) ELSE None,
                       password_present,
                       IF password_present THEN Some(pass.val) ELSE None,
                       keep_alive.val, client_id.val))

from_bytes(bytes) ==
    LET name == read_str(bytes, 0) IN
    IF name.kind # "Ok" THEN FbReturn(name) ELSE
    LET revision == read_byte(bytes, name.read) IN
    IF revision.kind # "Ok" THEN FbReturn(revision) ELSE
    LET flags == read_byte(bytes, revision.read) IN
    IF flags.kind # "Ok" THEN FbReturn(flags) ELSE
    IF ReservedBitSet(flags.val) THEN FbErr("InvalidConnectFlag") ELSE
    LET clean_session == FlagBit(flags.val, 2)
        will_flag == FlagBit(flags.val, 4)
        will_qos == QoS_from_u8(BitAnd(flags.val, 24))
        will_retain == FlagBit(flags.val, 32)
        password_present == FlagBit(flags.val, 64)
        username_present == FlagBit(flags.val, 128)
    IN
    IF will_qos.kind = "Err" THEN FbErr(will_qos.err) ELSE
    IF ~will_flag /\ will_qos.val # "AtMostOnce" THEN FbErr("InvalidQoS") ELSE
    IF ~will_flag /\ will_retain THEN FbErr("InvalidWillRetain") ELSE
    IF ~username_present /\ password_present
    THEN FbErr("PasswordWithoutUsername") ELSE
    ReadPayload(bytes, name.val, revision.val, flags.val, clean_session,
                will_flag, will_qos.val, will_retain, password_present,
                username_present, flags.read)

(***************************************************************************)
(* The sender's side: a CONNECT field set laid out as bytes in the order   *)
(* from_bytes reads them.                                                  *)
(***************************************************************************)
\* tests::encode_str: u16 big-endian length, then the bytes
encode_str(s) == <<Len(s) \div 256, Len(s) % 256>> \o s

FieldSet(name, revision, flags, keep_alive, client_id, will_topic, will_msg, username, password) ==
    [name |-> name, revision |-> revision, flags |-> flags,
     keep_alive |-> keep_alive, client_id |-> client_id,
     will_topic |-> will_topic, will_msg |-> will_msg,
     username |-> username, password |-> password]

NoFields == FieldSet(<<>>, 0, 0, 0, <<>>, None, None, None, None)

OptBytes(o) == IF o.some THEN encode_str(o.val) ELSE <<>>

\* the mandatory fields: name, revision, flags, keep-alive, client id
AssembleMandatory(f) ==
    encode_str(f.name) \o <<f.revision, f.flags>>
    \o <<f.keep_alive \div 256, f.keep_alive % 256>> \o encode_str(f.client_id)

Assemble(f) ==
    AssembleMandatory(f) \o OptBytes(f.will_topic) \o OptBytes(f.will_msg)
    \o OptBytes(f.username) \o OptBytes(f.password)

(***************************************************************************)
(* The values the model draws its inputs from.                             *)
(***************************************************************************)
\* "M" and "MQ"
Names == {<<77>>, <<77, 81>>}

Revisions == {PROTOCOL_REVISION_3_1_1, 1}

FlagBytes == 0 .. 255

\* 0x0102: the two bytes differ, so their order shows
KeepAlives == {258}

\* "" and "a"
ClientIds == {<<>>, <<97>>}

WillTopics == {<<116>>}

WillMsgs == {<<7, 0>>}

Usernames == {<<117>>}

Passwords == {<<112, 119>>}

QoSValues == {"AtMostOnce", "AtLeastOnce", "ExactlyOnce"}

\* 0x4D is 'M' and has the reserved bit set, 0xFF is never valid in UTF-8
RawBytes == {0, 1, 2, 32, 77, 255}

Opt(present, S) == IF present THEN {Some(v) : v \in S} ELSE {None}

\* the field sets a sender can lay out: any flags byte, and the optional
\* fields that byte announces
FieldSets ==
    UNION {
        {FieldSet(n, r, fl, k, c, wt, wm, u, p) :
            n \in Names, r \in Revisions, k \in KeepAlives, c \in ClientIds,
            wt \in Opt(Bit(fl, 2), WillTopics), wm \in Opt(Bit(fl, 2), WillMsgs),
            u \in Opt(Bit(fl, 7), Usernames), p \in Opt(Bit(fl, 6), Passwords)} :
        fl \in FlagBytes}

(***************************************************************************)
(* State.                                                                  *)
(*   fields  the field set the sender assembled (NoFields when the buffer  *)
(*           does not come from an assembled packet)                       *)
(*   wire    the assembled packet, <<>> when there is none                 *)
(*   bytes   the buffer the receiver holds: what has arrived so far        *)
(*   result  the outcome of Connect::from_bytes(bytes)                     *)
(*   conn    the Connect value under construction by the builder, if any   *)
(* The decoder and the builder share no state; the model follows one of    *)
(* them at a time.                                                         *)
(***************************************************************************)
VARIABLES fields, wire, bytes, result, conn

vars == <<fields, wire, bytes, result, conn>>

NoConn == [some |-> FALSE, val |-> NoConnect]

Init ==
    /\ fields = NoFields
    /\ wire = <<>>
    /\ bytes = <<>>
    /\ result = from_bytes(<<>>)
    /\ conn = NoConn

\* CONNECT is the first packet of a connection: a sender lays out a field
\* set while the receiver holds nothing; nothing has arrived yet
Send ==
    \E f \in FieldSets :
        /\ wire = <<>>
        /\ bytes = <<>>
        /\ ~conn.some
        /\ fields' = f
        /\ wire' = Assemble(f)
        /\ bytes' = <<>>
        /\ result' = from_bytes(<<>>)
        /\ conn' = NoConn

\* the next byte of the packet arrives and the receiver decodes from scratch
Receive ==
    /\ Len(bytes) < Len(wire)
    /\ bytes = SubSeq(wire, 1, Len(bytes))
    /\ bytes' = Append(bytes, wire[Len(bytes) + 1])
    /\ result' = from_bytes(bytes')
    /\ UNCHANGED <<fields, wire, conn>>

\* an arbitrary byte arrives and the receiver decodes from scratch
Feed ==
    \E b \in RawBytes :
        /\ Len(bytes) < MaxRawLen
        /\ bytes' = Append(bytes, b)
        /\ result' = from_bytes(bytes')
        /\ fields' = NoFields
        /\ wire' = <<>>
        /\ conn' = NoConn

New ==
    \E n \in Names, c \in ClientIds, k \in KeepAlives :
        /\ conn' = [some |-> TRUE, val |-> new(n, c, k)]
        /\ fields' = NoFields
        /\ wire' = <<>>
        /\ bytes' = <<>>
        /\ result' = from_bytes(<<>>)

Built(c) ==
    /\ conn.some
    /\ conn' = [some |-> TRUE, val |-> c]
    /\ UNCHANGED <<fields, wire, bytes, result>>

WithRevision == \E r \in Revisions : Built(with_revision(conn.val, r))

WithFlags == \E fl \in {0, 1} : Built(with_flags(conn.val, fl))

WithCleanSession == \E b \in BOOLEAN : Built(with_clean_session(conn.val, b))

WithWillFlag == \E b \in BOOLEAN : Built(with_will_flag(conn.val, b))

WithWillTopic == \E t \in WillTopics : Built(with_will_topic(conn.val, t))

WithWillMsg == \E m \in WillMsgs : Built(with_will_msg(conn.val, m))

WithWillQos == \E q \in QoSValues : Built(with_will_qos(conn.val, q))

WithWillRetain == \E b \in BOOLEAN : Built(with_will_retain(conn.val, b))

WithUsername == \E u \in Usernames : Built(with_username(conn.val, u))

WithPassword == \E p \in Passwords : Built(with_password(conn.val, p))

Next ==
    \/ Send
    \/ Receive
    \/ Feed
    \/ New
    \/ WithRevision
    \/ WithFlags
    \/ WithCleanSession
    \/ WithWillFlag
    \/ WithWillTopic
    \/ WithWillMsg
    \/ WithWillQos
    \/ WithWillRetain
    \/ WithUsername
    \/ WithPassword

Spec == Init /\ [][Next]_vars

(***************************************************************************)
(* The protocol's reading of a buffer, used to state the properties.       *)
(***************************************************************************)
\* the declared length of the protocol name
NameLen == bytes[1] * 256 + bytes[2]

\* the buffer holds a complete protocol name, and it is a string
HasName ==
    /\ Len(bytes) >= 2
    /\ Len(bytes) >= 2 + NameLen
    /\ Utf8Valid(SubSeq(bytes, 3, 2 + NameLen))

\* the buffer holds a protocol name, a revision byte and a flags byte
HasFlags == HasName /\ Len(bytes) >= 2 + NameLen + 2

RevisionByte == bytes[2 + NameLen + 1]

FlagsByte == bytes[2 + NameLen + 2]

\* the will-QoS field of a flags byte: bits 4 and 3
WillQosBits(fl) == (fl \div 8) % 4

\* the flags byte passes the validation gate of the protocol
ValidFlags(fl) ==
    /\ ~Bit(fl, 0)
    /\ WillQosBits(fl) # 3
    /\ (~Bit(fl, 2) => WillQosBits(fl) = 0 /\ ~Bit(fl, 5))
    /\ (~Bit(fl, 7) => ~Bit(fl, 6))

\* the declared length of the client identifier, when its prefix is there
ClientIdLen == bytes[2 + NameLen + 5] * 256 + bytes[2 + NameLen + 6]

\* the buffer ends before the end of a mandatory field
EndsInMandatoryField ==
    \/ Len(bytes) < 2
    \/ Len(bytes) < 2 + NameLen + 6
    \/ Len(bytes) < 2 + NameLen + 6 + ClientIdLen

\* the buffer is a whole packet laid out from a well-formed field set
Delivered == wire # <<>> /\ bytes = wire /\ ValidFlags(fields.flags)

\* the packet invariants of a Connect value
PacketInvariants(c) ==
    /\ ~c.will_flag =>
           /\ c.will_qos = "AtMostOnce"
           /\ ~c.will_retain
           /\ ~c.will_topic.some
           /\ ~c.will_msg.some
    /\ ~c.username_present => ~c.password_present
    /\ ~Bit(c.flags, 0)

\* the presence flags agree with the optional fields
PresenceAgrees(c) ==
    /\ c.username.some <=> c.username_present
    /\ c.password.some <=> c.password_present

(***************************************************************************)
(* Properties.                                                             *)
(***************************************************************************)
\* C1: a buffer that ends before the end of a mandatory field (whose name, if
\* complete, is a string and whose flags byte, if present, is valid) decodes
\* to Ok(Partial): no error, no panic on a read beyond the buffer.
C1_TruncatedIsPartial ==
    (/\ EndsInMandatoryField
     /\ Len(bytes) >= 2 /\ Len(bytes) >= 2 + NameLen => HasName
     /\ HasFlags => ValidFlags(FlagsByte))
    => result.kind = "Partial"

\* C2: the booleans of a decoded packet are the bits of its flags byte.
C2_BooleansAreBits ==
    result.kind = "Complete" =>
        /\ result.conn.flags = FlagsByte
        /\ result.conn.clean_session = Bit(FlagsByte, 1)
        /\ result.conn.will_flag = Bit(FlagsByte, 2)
        /\ result.conn.will_retain = Bit(FlagsByte, 5)
        /\ result.conn.password_present = Bit(FlagsByte, 6)
        /\ result.conn.username_present = Bit(FlagsByte, 7)

\* C3: a well-formed field set laid out as bytes decodes to Complete with
\* exactly those field values.
C3_RoundTrip ==
    Delivered =>
        /\ result.kind = "Complete"
        /\ result.conn.name = fields.name
        /\ result.conn.revision = fields.revision
        /\ result.conn.flags = fields.flags
        /\ result.conn.keep_alive = fields.keep_alive
        /\ result.conn.client_id = fields.client_id
        /\ result.conn.will_topic = fields.will_topic
        /\ result.conn.will_msg = fields.will_msg
        /\ result.conn.username = fields.username
        /\ result.conn.password = fields.password

\* C4: a buffer of a protocol name, a revision byte and a valid flags byte,
\* and nothing else, decodes to Complete with that name, revision and flags.
C4_NameRevisionFlagsComplete ==
    (HasFlags /\ Len(bytes) = 2 + NameLen + 2 /\ ValidFlags(FlagsByte)) =>
        /\ result.kind = "Complete"
        /\ result.conn.name = SubSeq(bytes, 3, 2 + NameLen)
        /\ result.conn.revision = RevisionByte
        /\ result.conn.flags = FlagsByte

\* C5: a flags byte with the reserved bit set is Err(InvalidConnectFlag),
\* whatever its other bits and whatever follows it.
C5_ReservedBitRejected ==
    (HasFlags /\ Bit(FlagsByte, 0)) =>
        result.kind = "Err" /\ result.err = "InvalidConnectFlag"

\* C5 witness: the buffer ends right after a flags byte that has the reserved
\* bit and other bits set, and the error is returned rather than Partial.
C5_Witness ==
    /\ HasFlags
    /\ Len(bytes) = 2 + NameLen + 2
    /\ Bit(FlagsByte, 0)
    /\ Bit(FlagsByte, 7)
    /\ result.err = "InvalidConnectFlag"

\* C6: will-retain set while will-flag is clear (reserved bit clear, will-QoS
\* 00) is Err(InvalidWillRetain).
C6_WillRetainRejected ==
    (/\ HasFlags
     /\ ~Bit(FlagsByte, 0)
     /\ ~Bit(FlagsByte, 2)
     /\ WillQosBits(FlagsByte) = 0
     /\ Bit(FlagsByte, 5))
    => result.kind = "Err" /\ result.err = "InvalidWillRetain"

\* C7: password-present set while username-present is clear, in an otherwise
\* valid flags byte, is Err(PasswordWithoutUsername).
C7_PasswordWithoutUsernameRejected ==
    (/\ HasFlags
     /\ ~Bit(FlagsByte, 0)
     /\ WillQosBits(FlagsByte) # 3
     /\ (~Bit(FlagsByte, 2) => WillQosBits(FlagsByte) = 0 /\ ~Bit(FlagsByte, 5))
     /\ ~Bit(FlagsByte, 7)
     /\ Bit(FlagsByte, 6))
    => result.kind = "Err" /\ result.err = "PasswordWithoutUsername"

\* C8: will-QoS 11 is Err(InvalidQoS) whatever the will-flag; with the
\* will-flag set, will-QoS 00, 01 and 10 give no InvalidQoS.
C8_WillQosValidation ==
    (HasFlags /\ ~Bit(FlagsByte, 0)) =>
        /\ WillQosBits(FlagsByte) = 3 =>
               result.kind = "Err" /\ result.err = "InvalidQoS"
        /\ (Bit(FlagsByte, 2) /\ WillQosBits(FlagsByte) # 3) =>
               result.err # "InvalidQoS"

\* C9 as stated: every Connect value, built or decoded, satisfies the packet
\* invariants.
C9_EveryConnectValid ==
    /\ conn.some => PacketInvariants(conn.val)
    /\ result.kind = "Complete" => PacketInvariants(result.conn)

\* C9 amended: every Connect value returned by from_bytes satisfies the
\* packet invariants.
C9_DecodedConnectValid ==
    result.kind = "Complete" => PacketInvariants(result.conn)

\* C9 witness: a packet with a non-zero flags byte has been decoded.
C9_Witness ==
    /\ result.kind = "Complete"
    /\ result.conn.flags # 0
    /\ result.conn.flags = FlagsByte

\* C10: in every Connect value, built or decoded, username and password are
\* present exactly when their presence flags are true.
C10_PresenceFlagsAgree ==
    /\ conn.some => PresenceAgrees(conn.val)
    /\ result.kind = "Complete" => PresenceAgrees(result.conn)

\* C10 witness: the builder has set a username and no password.
C10_Witness ==
    /\ conn.some
    /\ conn.val.username.some
    /\ conn.val.username_present
    /\ ~conn.val.password.some
    /\ ~conn.val.password_present

====
